---- MODULE Spec2Model ----
(***************************************************************************)
(* State-machine model of the tetris-rs game engine (src/src/main.rs):     *)
(* MainState, Board, Tetromino, Rotate90 and the two event handlers        *)
(* update and key_down_event.                                              *)
(*                                                                         *)
(* Coordinates: a point or vector is a pair <<x, y>>; the source's         *)
(* block[0] is [1] here and block[1] is [2].  Row 0 is the top row.        *)
(* Time is in milliseconds since start_time.                               *)
(***************************************************************************)
EXTENDS Integers, Sequences, FiniteSets, TLC

\* pos, facing, tetromino, updates_so_far, board: the fields of MainState.
\* now:      Instant::now() - start_time as read by the latest poll of update.
\* panicked: the process has aborted in panic!; no handler runs after that.
\* last:     the handler that ran last (op: "new", "update" or the KeyCode)
\*           and what it did (outcome: "none", "moved", "locked", "cleared",
\*           "panic"); written by every action, read by no handler.
\* turns:    the cells the piece occupied before each of the latest (at most
\*           4) successful rotations pressed in a row, oldest first; kept
\*           by SpecRotate only, read by no handler.
VARIABLES pos, facing, tetromino, updates_so_far, board, now, panicked, last,
          turns

vars == <<pos, facing, tetromino, updates_so_far, board, now, panicked, last,
          turns>>

\* The fields of MainState other than the clock reading.
game == <<pos, facing, tetromino, updates_so_far, board>>

-----------------------------------------------------------------------------
(* Bounds of the model.  Width and Height stand for GRID_SIZE = (16, 32)   *)
(* and the dimensions of Board::data, scaled down; every literal 16 and 15 *)
(* of the source is Width and Width - 1 here.                              *)

Width == 4
Height == 4
\* The game is followed until updates_so_far reaches MaxTicks.
MaxTicks == 2
\* RotateClockwise is not pressed again once facing has reached MaxFacing.
MaxFacing == 4

\* Program constants.
MILLIS_PER_UPDATE == 500
U8_MAX == 255

\* The delays between two polls of update: none, one period.  The first
\* tick is due at start_time, so a first poll one period later is late.
Delays == {0, MILLIS_PER_UPDATE}
MaxNow == MILLIS_PER_UPDATE * MaxTicks

-----------------------------------------------------------------------------
(* Geometry *)

Tetrominoes ==
    {"IBlock", "OBlock", "TBlock", "SBlock", "ZBlock", "JBlock", "LBlock"}

block_offsets(t) ==
    CASE t = "IBlock" -> << <<0, 0>>, <<1, 0>>, <<2, 0>>, <<-1, 0>> >>
      [] t = "OBlock" -> << <<0, 0>>, <<1, 0>>, <<0, 1>>, <<1, 1>> >>
      [] t = "TBlock" -> << <<0, 0>>, <<0, 1>>, <<-1, 0>>, <<1, 0>> >>
      [] t = "SBlock" -> << <<0, 0>>, <<0, 1>>, <<1, 0>>, <<-1, 1>> >>
      [] t = "ZBlock" -> << <<0, 0>>, <<0, 1>>, <<-1, 0>>, <<1, 1>> >>
      [] t = "LBlock" -> << <<0, 0>>, <<0, 1>>, <<0, -1>>, <<-1, -1>> >>
      [] t = "JBlock" -> << <<0, 0>>, <<0, 1>>, <<0, -1>>, <<1, -1>> >>

\* Mutant: the facing is matched without the reduction modulo 4.
rotate_90_no_mod(v, f) ==
    CASE f = 0 -> v
      [] f = 1 -> <<-v[2], v[1]>>
      [] f = 2 -> <<-v[1], -v[2]>>
      [] f = 3 -> <<v[2], -v[1]>>
      [] OTHER -> v

rotate_90(v, f) ==
    CASE f % 4 = 0 -> v
      [] f % 4 = 1 -> <<-v[2], v[1]>>
      [] f % 4 = 2 -> <<-v[1], -v[2]>>
      [] f % 4 = 3 -> <<v[2], -v[1]>>

blocks(t, p, f) ==
    [i \in 1..4 |->
        LET r == rotate_90(block_offsets(t)[i], f)
        IN  <<p[1] + r[1], p[2] + r[2]>>]

Min(S) == CHOOSE m \in S : \A n \in S : m <= n
Max(S) == CHOOSE m \in S : \A n \in S : m >= n

min_x(t, f) == Min({blocks(t, <<0, 0>>, f)[i][1] : i \in 1..4})
max_x(t, f) == Max({blocks(t, <<0, 0>>, f)[i][1] : i \in 1..4})
min_y(t, f) == Min({blocks(t, <<0, 0>>, f)[i][2] : i \in 1..4})
max_y(t, f) == Max({blocks(t, <<0, 0>>, f)[i][2] : i \in 1..4})

-----------------------------------------------------------------------------
(* Board.  b[y][x] is "Empty" (Some(None)) or the kind of the FixedBlock   *)
(* locked there; "Absent" is what get returns outside the grid (None).     *)

Empty == "Empty"
Absent == "Absent"

EmptyBoard == [y \in 0..(Height - 1) |-> [x \in 0..(Width - 1) |-> Empty]]

\* Mutant: only the row index is checked against the grid.
get_row_checked_only(b, block) ==
    IF block[2] \in 0..(Height - 1)
    THEN IF block[1] \in 0..(Width - 1) THEN b[block[2]][block[1]] ELSE "Empty"
    ELSE "Absent"

\* Board::get and Board::get_mut: a negative index cast to usize is larger
\* than any length, so slice::get answers None for it too.
get(b, block) ==
    IF block[2] \in 0..(Height - 1) /\ block[1] \in 0..(Width - 1)
    THEN b[block[2]][block[1]]
    ELSE Absent

\* **a = Some(fixed_block) through the reference get_mut returned.
put(b, block, cell) == [b EXCEPT ![block[2]][block[1]] = cell]

-----------------------------------------------------------------------------
(* MainState *)

not_overlapping_down ==
    \A i \in 1..4 :
        get(board, blocks(tetromino, <<pos[1], pos[2] + 1>>, facing)[i]) = Empty

\* Mutant: the check is made on the current pose, not the candidate one.
not_overlapping_left_current ==
    \A i \in 1..4 :
        get(board, blocks(tetromino, pos, facing)[i]) = Empty

not_overlapping_left ==
    \A i \in 1..4 :
        get(board, blocks(tetromino, <<pos[1] - 1, pos[2]>>, facing)[i]) = Empty

not_overlapping_right ==
    \A i \in 1..4 :
        get(board, blocks(tetromino, <<pos[1] + 1, pos[2]>>, facing)[i]) = Empty

\* self.facing + 1 on a u8; at U8_MAX a release build wraps (a debug build
\* panics before the check is made, see RotateOverflows).
not_overlapping_rotate ==
    \A i \in 1..4 :
        get(board, blocks(tetromino, pos, (facing + 1) % (U8_MAX + 1))[i]) = Empty

\* Lines 110-115: the cells are written one by one, in the order of
\* block_offsets, up to the first one that is outside or occupied.
RECURSIVE LockFrom(_, _, _, _)
LockFrom(b, cells, i, kind) ==
    IF i > 4 THEN [board |-> b, panic |-> FALSE]
    ELSE IF get(b, cells[i]) = Empty
         THEN LockFrom(put(b, cells[i], kind), cells, i + 1, kind)
         ELSE [board |-> b, panic |-> TRUE]

\* Mutant: the loop over the cells starts one cell late.
LockCells_skip_first(b, t, p, f) == LockFrom(b, blocks(t, p, f), 2, t)

LockCells(b, t, p, f) == LockFrom(b, blocks(t, p, f), 1, t)

RowFull(b, y) == \A x \in 0..(Width - 1) : b[y][x] # Empty

\* Lines 118-124: for higher in (0..y).rev(), row higher + 1 := row higher.
RECURSIVE ShiftRows(_, _)
ShiftRows(b, higher) ==
    IF higher < 0 THEN b
    ELSE ShiftRows([b EXCEPT ![higher + 1] = b[higher]], higher - 1)

\* Lines 116-126: for y in 0..len, a full row y is overwritten from above.
RECURSIVE ClearFrom(_, _)
ClearFrom(b, y) ==
    IF y >= Height THEN b
    ELSE IF RowFull(b, y) THEN ClearFrom(ShiftRows(b, y - 1), y + 1)
         ELSE ClearFrom(b, y + 1)

ClearLines(b) == ClearFrom(b, 0)

\* Lines 128-137: the positions gen_range(-min_x, 16 - max_x) can draw.
SpawnXs(t, f) == (-min_x(t, f))..(Width - max_x(t, f) - 1)

\* Lines 128-137: every (kind, facing, origin) the respawn can draw.
SpawnPoses ==
    UNION {{[tetromino |-> t, facing |-> f, pos |-> <<x, -min_y(t, f)>>] :
               x \in SpawnXs(t, f)} : t \in Tetrominoes, f \in 0..3}

\* MainState::new: gen_range(0, 15).
NewXs == 0..(Width - 2)

Init ==
    /\ pos \in {<<x, 0>> : x \in NewXs}
    /\ facing = 0
    /\ tetromino \in Tetrominoes
    /\ updates_so_far = 0
    /\ board = EmptyBoard
    /\ now = 0
    /\ panicked = FALSE
    /\ last = [op |-> "new", outcome |-> "none"]
    /\ turns = <<>>

-----------------------------------------------------------------------------
(* update, polled d milliseconds after the previous poll *)

\* Mutant: the cadence test is one period early.
Due_early(t) == t >= MILLIS_PER_UPDATE * (updates_so_far - 1)

Due(t) == t >= MILLIS_PER_UPDATE * updates_so_far

\* Mutant: the lock loop runs on every tick, before the descent.
Descend_locking ==
    /\ pos' = <<pos[1], pos[2] + 1>>
    /\ updates_so_far' = updates_so_far + 1
    /\ board' = LockCells(board, tetromino, pos, facing).board
    /\ UNCHANGED <<facing, tetromino, panicked>>

Descend ==
    /\ pos' = <<pos[1], pos[2] + 1>>
    /\ updates_so_far' = updates_so_far + 1
    /\ UNCHANGED <<facing, tetromino, board, panicked>>

LockAndRespawn ==
    LET res == LockCells(board, tetromino, pos, facing)
    IN  IF res.panic
        THEN /\ panicked' = TRUE
             /\ board' = res.board
             /\ last' = [op |-> "update", outcome |-> "panic"]
             /\ UNCHANGED <<pos, facing, tetromino, updates_so_far>>
        ELSE /\ board' = ClearLines(res.board)
             /\ last' = [op |-> "update",
                         outcome |-> IF \E y \in 0..(Height - 1) : RowFull(res.board, y)
                                     THEN "cleared" ELSE "locked"]
             /\ \E s \in SpawnPoses :
                   /\ tetromino' = s.tetromino
                   /\ facing' = s.facing
                   /\ pos' = s.pos
             /\ updates_so_far' = updates_so_far + 1
             /\ UNCHANGED panicked

Update(d) ==
    /\ ~panicked
    /\ now' = now + d
    /\ IF Due(now')
       THEN IF not_overlapping_down
            THEN Descend /\ last' = [op |-> "update", outcome |-> "moved"]
            ELSE LockAndRespawn
       ELSE /\ last' = [op |-> "update", outcome |-> "none"]
            /\ UNCHANGED <<game, panicked>>

-----------------------------------------------------------------------------
(* key_down_event *)

KeyCodes == {"Left", "Right", "Up", "Down", "Space", "Other"}

\* The row the while loop of KeyCode::Space stops at.
RECURSIVE DropRow(_)
DropRow(y) ==
    IF \A i \in 1..4 :
          get(board, blocks(tetromino, <<pos[1], y + 1>>, facing)[i]) = Empty
    THEN DropRow(y + 1)
    ELSE y

\* Mutant: the drop is an if, not a while.
hard_drop_once == IF not_overlapping_down THEN pos[2] + 1 ELSE pos[2]

hard_drop == DropRow(pos[2])

\* facing + 1 overflows u8: with overflow checks (a debug build) the
\* addition panics, without them it wraps.
RotateOverflows == facing = U8_MAX

KeyDown(keycode, repeat) ==
    /\ ~panicked
    /\ UNCHANGED <<tetromino, updates_so_far, board, now>>
    /\ CASE keycode = "Left" ->
              /\ pos' = IF not_overlapping_left THEN <<pos[1] - 1, pos[2]>> ELSE pos
              /\ UNCHANGED <<facing, panicked>>
         [] keycode = "Right" ->
              /\ pos' = IF not_overlapping_right THEN <<pos[1] + 1, pos[2]>> ELSE pos
              /\ UNCHANGED <<facing, panicked>>
         [] keycode = "Up" ->
              \/ /\ facing' = IF not_overlapping_rotate
                              THEN (facing + 1) % (U8_MAX + 1) ELSE facing
                 /\ UNCHANGED <<pos, panicked>>
              \/ /\ RotateOverflows
                 /\ panicked' = TRUE
                 /\ UNCHANGED <<pos, facing>>
         [] keycode = "Down" ->
              /\ pos' = IF not_overlapping_down THEN <<pos[1], pos[2] + 1>> ELSE pos
              /\ UNCHANGED <<facing, panicked>>
         [] keycode = "Space" ->
              /\ pos' = <<pos[1], hard_drop>>
              /\ UNCHANGED <<facing, panicked>>
         [] OTHER ->
              UNCHANGED <<pos, facing, panicked>>
    /\ last' = [op |-> keycode,
                outcome |-> IF panicked' THEN "panic"
                            ELSE IF pos' # pos \/ facing' # facing THEN "moved"
                            ELSE "none"]

-----------------------------------------------------------------------------

Poll == \E d \in Delays :
           /\ updates_so_far < MaxTicks
           /\ now + d <= MaxNow
           /\ Update(d)
           /\ UNCHANGED turns

Key == \E keycode \in KeyCodes, repeat \in BOOLEAN :
          /\ updates_so_far < MaxTicks
          /\ keycode = "Up" => facing < MaxFacing
          /\ KeyDown(keycode, repeat)
          /\ UNCHANGED turns

Next == Poll \/ Key

Spec == Init /\ [][Next]_vars

(* One falling piece under RotateClockwise and SoftDrop alone, with no cap *)
(* on facing and no tick: the piece lives as long as the keys are pressed. *)

RotateKeys == {"Up", "Down"}

KeyRotate == \E keycode \in RotateKeys, repeat \in BOOLEAN :
                /\ KeyDown(keycode, repeat)
                /\ turns' = IF keycode = "Up" /\ facing' # facing
                            THEN (IF Len(turns) = 4 THEN Tail(turns) ELSE turns)
                                 \o << {blocks(tetromino, pos, facing)[i] : i \in 1..4} >>
                            ELSE <<>>

NextRotate == KeyRotate

SpecRotate == Init /\ [][NextRotate]_vars

-----------------------------------------------------------------------------
(* The vocabulary of the properties: legality as the specification words   *)
(* it, on coordinates and board cells.                                     *)

Inside(c) == 0 <= c[1] /\ c[1] < Width /\ 0 <= c[2] /\ c[2] < Height

\* All 4 cells of the pose (p, f) of the falling piece are inside the grid
\* and Empty on the board.
Legal(p, f) ==
    \A i \in 1..4 :
        LET c == blocks(tetromino, p, f)[i]
        IN  Inside(c) /\ board[c[2]][c[1]] = Empty

Down1 == <<pos[1], pos[2] + 1>>

PieceCells == {blocks(tetromino, pos, facing)[i] : i \in 1..4}

\* The step is key_down_event(keycode): last records the handler that ran.
Pressed(keycode) == last'.op = keycode

\* The step is a poll of update that executes a tick.
Tick == last'.op = "update" /\ last'.outcome # "none"

\* A tick in which the piece cannot descend.
LockTick == Tick /\ ~Legal(Down1, facing)

\* The pose is the candidate if the candidate is legal, the old one if not.
CommitIff(p, f) ==
    IF Legal(p, f) THEN pos' = p /\ facing' = f
    ELSE pos' = pos /\ facing' = facing

-----------------------------------------------------------------------------
\* C1: the lock step of a tick never reaches its panic: whenever a tick
\* locks the piece, its 4 cells are inside the board and Empty.
C1_LockNeverPanics == ~(last.op = "update" /\ last.outcome = "panic")

\* C2: every command and the gravity step commit the candidate pose if and
\* only if its 4 cells are inside the grid and Empty; a hard drop commits
\* each one-row step on that condition and stops at the first illegal one.
C2_CommitIffCandidateLegal ==
    [][ /\ Pressed("Left") => CommitIff(<<pos[1] - 1, pos[2]>>, facing)
        /\ Pressed("Right") => CommitIff(<<pos[1] + 1, pos[2]>>, facing)
        /\ Pressed("Down") => CommitIff(Down1, facing)
        /\ Pressed("Up") => CommitIff(pos, facing + 1)
        /\ Pressed("Space") =>
              /\ pos'[1] = pos[1] /\ pos'[2] >= pos[2] /\ facing' = facing
              /\ \A y \in (pos[2] + 1)..pos'[2] : Legal(<<pos[1], y>>, facing)
              /\ ~Legal(<<pos[1], pos'[2] + 1>>, facing)
        /\ Tick =>
              (Legal(Down1, facing) <=>
                  /\ pos' = Down1
                  /\ UNCHANGED <<facing, tetromino, board, panicked>>)
      ]_vars

\* A move to the left was committed and brought the piece to the wall,
\* where the next candidate is illegal.
C2_Witness ==
    /\ last = [op |-> "Left", outcome |-> "moved"]
    /\ Legal(pos, facing)
    /\ ~Legal(<<pos[1] - 1, pos[2]>>, facing)

\* C3: a second poll of update at the same time as the one before it
\* performs no tick and leaves piece, board and tick counter unchanged.
C3_SecondAdvanceIdle ==
    [][ (last.op = "update" /\ last'.op = "update" /\ now' = now)
            => UNCHANGED game ]_vars

\* C4: when a poll of update returns, no tick is still due:
\* now - start_time < updates_so_far * period.
C4_NoTickDueAfterAdvance ==
    (last.op = "update" /\ ~panicked) => now < MILLIS_PER_UPDATE * updates_so_far

\* C5: when a lock completes row r, after the tick rows 1..r hold what rows
\* 0..r-1 held just before the clear, the rows below r are unchanged and
\* row 0 is Empty.
C5_Compaction ==
    [][ \A r \in 0..(Height - 1) :
          LET locked == LockCells(board, tetromino, pos, facing)
          IN  ( /\ LockTick
                /\ ~locked.panic
                /\ \A y \in 0..(Height - 1) : RowFull(locked.board, y) <=> y = r )
              => /\ \A i \in 1..r : board'[i] = locked.board[i - 1]
                 /\ \A i \in (r + 1)..(Height - 1) : board'[i] = locked.board[i]
                 /\ \A x \in 0..(Width - 1) : board'[0][x] = Empty
      ]_vars

\* C6: after every lock-and-respawn tick no row of the board is full.
C6_NoFullRowAfterLock ==
    (last.op = "update" /\ ~panicked) =>
        \A y \in 0..(Height - 1) : ~RowFull(board, y)

\* C7: every spawn, at construction and after a lock, puts all 4 cells in
\* columns [0, Width) and the topmost cell at row 0.
C7_SpawnPlacement ==
    (last.op = "new" \/ (last.op = "update" /\ last.outcome \in {"locked", "cleared"}))
        => /\ \A c \in PieceCells : 0 <= c[1] /\ c[1] < Width
           /\ Min({c[2] : c \in PieceCells}) = 0

\* C8: a lock of a piece whose 4 cells are Empty that fills no row changes
\* the board in exactly those 4 cells, which hold the piece's kind.
C8_LockWritesFourCells ==
    [][ LET c == blocks(tetromino, pos, facing)
            b1 == [board EXCEPT ![c[1][2]][c[1][1]] = tetromino]
            b2 == [b1 EXCEPT ![c[2][2]][c[2][1]] = tetromino]
            b3 == [b2 EXCEPT ![c[3][2]][c[3][1]] = tetromino]
            b4 == [b3 EXCEPT ![c[4][2]][c[4][1]] = tetromino]
        IN  ( /\ LockTick
              /\ Legal(pos, facing)
              /\ \A y \in 0..(Height - 1) : \E x \in 0..(Width - 1) : b4[y][x] = Empty )
            => board' = b4
      ]_vars

\* A lock without a line clear has happened on the empty board.
C8_Witness ==
    /\ last = [op |-> "update", outcome |-> "locked"]
    /\ Cardinality({c \in (0..(Width - 1)) \X (0..(Height - 1)) :
                       board[c[2]][c[1]] # Empty}) = 4

\* The candidate pose the legality check of a command is made on.
Refused(keycode) ==
    CASE keycode = "Left" -> ~Legal(<<pos[1] - 1, pos[2]>>, facing)
      [] keycode = "Right" -> ~Legal(<<pos[1] + 1, pos[2]>>, facing)
      [] keycode = "Up" -> ~Legal(pos, facing + 1)
      [] keycode = "Down" -> ~Legal(Down1, facing)
      [] keycode = "Space" -> ~Legal(Down1, facing)
      [] OTHER -> FALSE

\* C9: a command whose legality check fails raises no error and changes
\* nothing; MoveLeft with the leftmost cell at column 0 keeps the origin.
C9_RefusedCommandIsNoOp ==
    [][ /\ \A k \in KeyCodes :
              (Pressed(k) /\ Refused(k)) => UNCHANGED <<game, panicked>>
        /\ (Pressed("Left") /\ Min({c[1] : c \in PieceCells}) = 0) => pos' = pos
      ]_vars

\* MoveLeft has just been refused with the leftmost cell at column 0.
C9_Witness ==
    /\ last = [op |-> "Left", outcome |-> "none"]
    /\ Min({c[1] : c \in PieceCells}) = 0

\* C10: HardDrop changes only the origin's y, by legal one-row steps up to
\* the first illegal one; after it a descent is illegal, so SoftDrop and a
\* second HardDrop change nothing; it never locks the piece.
C10_HardDropRests ==
    [][ Pressed("Space") =>
          /\ pos'[1] = pos[1] /\ pos'[2] >= pos[2]
          /\ \A y \in (pos[2] + 1)..pos'[2] : Legal(<<pos[1], y>>, facing)
          /\ UNCHANGED <<facing, tetromino, board, updates_so_far, panicked>>
          /\ (~Legal(Down1, facing))'
          /\ (~not_overlapping_down)'
          /\ (hard_drop = pos[2])'
      ]_vars

\* A hard drop has moved the piece down to where it rests.
C10_Witness ==
    /\ last = [op |-> "Space", outcome |-> "moved"]
    /\ ~Legal(Down1, facing)

-----------------------------------------------------------------------------
\* The falling piece has just been spawned, by new or by a lock.
JustSpawned ==
    last.op = "new" \/ (last.op = "update" /\ last.outcome \in {"locked", "cleared"})

\* The step is a tick that locked the piece and respawned.
Locked == last'.op = "update" /\ last'.outcome \in {"locked", "cleared"}

LowestRow == Max({c[2] : c \in PieceCells})

\* C11: a HardDrop on the empty board from spawn height brings the lowest
\* cell of the piece to row Height - 1, and the next tick, with no command
\* in between, locks the piece there.
C11_HardDropThenLock ==
    [][ /\ (JustSpawned /\ board = EmptyBoard /\ Pressed("Space"))
              => LowestRow' = Height - 1
        /\ (last.op = "Space" /\ board = EmptyBoard /\ Tick)
              => (LowestRow = Height - 1 /\ Locked)
      ]_vars

\* C12: updates_so_far changes only in update, by exactly 1 and only at a
\* time now with now >= updates_so_far * period; a poll that is not due
\* changes nothing, a tick that returns counts 1, and no key changes the
\* counter or the clock.
C12_TicksOnSchedule ==
    [][ /\ updates_so_far' # updates_so_far =>
              /\ last'.op = "update"
              /\ updates_so_far' = updates_so_far + 1
              /\ now' >= MILLIS_PER_UPDATE * updates_so_far
        /\ (last'.op = "update" /\ now' < MILLIS_PER_UPDATE * updates_so_far)
              => UNCHANGED game
        /\ (Tick /\ ~panicked') => updates_so_far' = updates_so_far + 1
        /\ last'.op \in KeyCodes => (updates_so_far' = updates_so_far /\ now' = now)
      ]_vars

\* Tick 1 has been executed at the time it is due or later, and the piece
\* descended.
C12_Witness ==
    /\ last = [op |-> "update", outcome |-> "moved"]
    /\ updates_so_far = 2
    /\ now = MILLIS_PER_UPDATE

BoardDims ==
    /\ DOMAIN board = 0..(Height - 1)
    /\ \A y \in 0..(Height - 1) : DOMAIN board[y] = 0..(Width - 1)

\* C13: the board is Width x Height in every reachable state, and it changes
\* only in a tick in which the piece cannot descend: no key and no
\* descending tick changes a cell.
C13_BoardChangedOnlyByLock ==
    /\ []BoardDims
    /\ [][ board' # board => (last'.op = "update" /\ ~Legal(Down1, facing)) ]_vars

\* A tick has moved the piece down over a board that holds locked cells.
C13_Witness ==
    /\ last = [op |-> "update", outcome |-> "moved"]
    /\ board # EmptyBoard

\* C14: a key-down event flagged as a repeat leaves origin and facing
\* unchanged.
C14_RepeatIgnored ==
    [][ (\E k \in KeyCodes : KeyDown(k, TRUE)) => (pos' = pos /\ facing' = facing)
      ]_vars

\* C15: the stored facing is one of 0, 1, 2, 3 in every reachable state, and
\* a successful RotateClockwise from facing 3 yields facing 0.
C15_FacingMod4 ==
    /\ [](facing \in 0..3)
    /\ [][ (Pressed("Up") /\ facing = 3 /\ facing' # facing) => facing' = 0 ]_vars

Rot4(v, f) == rotate_90(rotate_90(rotate_90(rotate_90(v, f), f), f), f)

\* rotate(., f) applied 4 times is the identity, for every facing a u8 holds,
\* on every offset of every kind and on every vector of a box around them.
RotationCloses ==
    /\ \A t \in Tetrominoes, i \in 1..4, f \in 0..U8_MAX :
          Rot4(block_offsets(t)[i], f) = block_offsets(t)[i]
    /\ \A v \in (-2..2) \X (-2..2), f \in 0..U8_MAX : Rot4(v, f) = v

\* C16: rotation closes after four steps, and after four successful
\* RotateClockwise commands in a row the piece occupies the cells it
\* occupied before the first.
C16_FourRotationsClose ==
    /\ RotationCloses
    /\ \A i \in 1..4 :
          Rot4(block_offsets(tetromino)[i], facing) = block_offsets(tetromino)[i]
    /\ Len(turns) = 4 => turns[1] = PieceCells

\* Four successful rotations in a row have been made, the last ones past
\* facing 4.
C16_Witness == Len(turns) = 4 /\ facing > 5

\* C17: all 4 cells of the falling piece are inside the board and Empty on
\* it in every reachable state.
C17_PieceInsideAndFree == ~panicked => Legal(pos, facing)

\* C18: no operation decreases the origin y of a falling piece during its
\* lifetime, and every executed tick either increases it by 1 or locks the
\* piece (so a piece is locked within Height ticks).
C18_TickDescendsOrLocks ==
    [][ /\ ~Locked => pos'[2] >= pos[2]
        /\ Tick => (pos' = Down1 \/ Locked)
      ]_vars

\* C19: neither the candidate facing + 1 nor the commit facing += 1 of
\* RotateClockwise is evaluated with facing = 255.
C19_FacingNeverOverflows ==
    [][ Pressed("Up") => facing # U8_MAX ]_vars
====
